---- MODULE Spec2Model ----
(***************************************************************************)
(* film-breakdown-assistant: the orchestration core of src/core/analyzer.py *)
(* (ScriptAnalyzer) together with the client boundary it awaits            *)
(* (src/ai/ollama_client.py) and the ReviewFlag validation of              *)
(* src/core/models.py.                                                     *)
(*                                                                         *)
(* Python values are modelled as follows.                                  *)
(*   - a scene identifier / bound string is a sequence of one-character    *)
(*     strings, so that strip() and upper() are computed, not assumed;     *)
(*   - Optional[str] is a record [some, val]; None is [some |-> FALSE];    *)
(*   - scene dicts live in a heap (scene_objs) and every list of scenes is *)
(*     a sequence of heap references, because the analyzer mutates the     *)
(*     caller's dicts in place (scene.update) and returns the same objects;*)
(*   - a client result is a record tagged by its JSON kind.                *)
(***************************************************************************)
EXTENDS Integers, Sequences, FiniteSets, TLC

VARIABLES
    \* ---- program state -------------------------------------------------
    scene_objs,        \* heap: reference -> scene dict
    scenes,            \* the list handed to the entry point (references)
    categories,        \* the selected categories handed to the entry point
    from_scene,        \* run_full_pipeline / _filter_scenes argument
    to_scene,          \* run_full_pipeline / _filter_scenes argument
    config,            \* ProjectConfig fields the analyzer reads
    semaphore,         \* permits left in ScriptAnalyzer.semaphore
    master_history,    \* ScriptAnalyzer.master_history: category -> set of names
    is_running,        \* ScriptAnalyzer.is_running
    entry,             \* which entry point runs: "none", "pipeline", "breakdown"
    pc,                \* the entry point's position (the await it is suspended at)
    active_scenes,     \* result of _filter_scenes (references)
    i,                 \* enumerate(active_scenes, 1) position of run_full_pipeline
    current,           \* current_scene_data (reference, 0 before the first harvest)
    processed_scenes,  \* processed_scenes of run_full_pipeline (references)
    tasks,             \* the coroutines run_breakdown gathers
    res_a,             \* run_continuity_pass: the Matchmaker result, while the scene is worked on
    result,            \* what the entry point handed to its caller
    runs,              \* entry-point calls made on this analyzer so far
    \* ---- range-filter driver (SpecFilter) -------------------------------
    refiltered,        \* result of filtering active_scenes again
    fpc,               \* position of the range-filter driver
    \* ---- OllamaClient (SpecClient) -------------------------------------
    client,            \* OllamaClient._client and the generate_breakdown call in progress
    \* ---- history of the environment (what the client was asked / gave) --
    items_left,        \* list entries the client may still return in this run
    returned_elements, \* per scene: the elements the client returned under "elements"
    core_failed,       \* scenes whose core request returned Failure
    core_ok,           \* scenes whose core request returned a non-empty object
    flag_failed,       \* scenes whose flag-scan request returned Failure
    valid_flags,       \* per scene: entries of the flag response with severity in 1..3
    dropped_flags,     \* per scene: the other entries of the flag response
    begun_stopped,     \* scenes whose processing began with the stop flag set
    issued             \* requests issued so far: <<scene reference, kind>>

vars == <<scene_objs, scenes, categories, from_scene, to_scene, config, semaphore,
          master_history, is_running, entry, pc, active_scenes, i, current,
          processed_scenes, tasks, res_a, result, runs, refiltered, fpc,
          client, items_left, returned_elements, core_failed, core_ok, flag_failed,
          valid_flags, dropped_flags, begun_stopped, issued>>

\* everything the range-filter driver leaves alone
run_vars == <<client, categories, config, semaphore, master_history, is_running, entry, pc,
              i, current, processed_scenes, tasks, res_a, result, runs, items_left,
              returned_elements, core_failed, core_ok, flag_failed, valid_flags,
              dropped_flags, begun_stopped, issued>>

-----------------------------------------------------------------------------
(* Bounds of the model                                                     *)

\* longest scene list handed to _filter_scenes in SpecFilter
MaxFilterLen == 3

\* longest scene list handed to run_full_pipeline / run_breakdown
MaxScenes == 2

\* list entries (elements, continuity notes, flags) the client returns in one run
MaxItems == 2

\* calls of run_full_pipeline on one analyzer in SpecSession
MaxRuns == 2

\* tokens in the text of one response of the model server
MaxTextLen == 5

-----------------------------------------------------------------------------
(* Python str helpers used by the analyzer                                 *)

None == [some |-> FALSE, val |-> <<>>]
Some(s) == [some |-> TRUE, val |-> s]

\* Python truthiness of an Optional[str]: None and "" are falsy
truthy_str(o) == o.some /\ Len(o.val) > 0

LowerCase == <<"a", "b", "c", "d", "e", "f", "g", "h", "i", "j", "k", "l", "m",
               "n", "o", "p", "q", "r", "s", "t", "u", "v", "w", "x", "y", "z">>
UpperCase == <<"A", "B", "C", "D", "E", "F", "G", "H", "I", "J", "K", "L", "M",
               "N", "O", "P", "Q", "R", "S", "T", "U", "V", "W", "X", "Y", "Z">>

upper_char(c) ==
    IF \E k \in DOMAIN LowerCase : LowerCase[k] = c
    THEN UpperCase[CHOOSE k \in DOMAIN LowerCase : LowerCase[k] = c]
    ELSE c

\* an OllamaClient nobody has called: _client is None (ollama_client.py line 23)
ClientOff ==
    [pc |-> "off", session |-> FALSE, reply |-> "none", raw_content |-> <<>>,
     outcome |-> "pending"]

\* str.upper()
upper(s) == [k \in DOMAIN s |-> upper_char(s[k])]

RECURSIVE lstrip(_)
lstrip(s) == IF s # <<>> /\ Head(s) = " " THEN lstrip(Tail(s)) ELSE s

RECURSIVE rstrip(_)
rstrip(s) == IF s # <<>> /\ s[Len(s)] = " " THEN rstrip(SubSeq(s, 1, Len(s) - 1)) ELSE s

\* str.strip()
strip(s) == rstrip(lstrip(s))

\* a slice that takes the element at its end index too
slice_closed(lst, a, b) ==
    SubSeq(lst, a + 1, IF b < Len(lst) THEN b + 1 ELSE b)

\* Python slice lst[a:b] for 0 <= a, b <= len(lst) (0-based, b exclusive)
Slice(lst, a, b) == SubSeq(lst, a + 1, b)

-----------------------------------------------------------------------------
(* ScriptAnalyzer._filter_scenes                                           *)

\* mutant of filter_step: the current identifier is compared without upper()
filter_step_case_sensitive(k, scene_number, start_str, end_str, start_idx, end_idx) ==
    LET current_num == strip(scene_number)
    IN <<IF truthy_str(start_str) /\ current_num = start_str.val THEN k ELSE start_idx,
         IF truthy_str(end_str) /\ current_num = end_str.val THEN k + 1 ELSE end_idx>>

\* mutant of filter_step: the end index is the matching position itself, not one past it
filter_step_end_at_match(k, scene_number, start_str, end_str, start_idx, end_idx) ==
    LET current_num == upper(strip(scene_number))
    IN <<IF truthy_str(start_str) /\ current_num = start_str.val THEN k ELSE start_idx,
         IF truthy_str(end_str) /\ current_num = end_str.val THEN k ELSE end_idx>>

\* one iteration of the loop (lines 282-286) at 0-based position k:
\* the pair <<start_idx, end_idx>> after it
filter_step(k, scene_number, start_str, end_str, start_idx, end_idx) ==
    LET current_num == upper(strip(scene_number))
    IN <<IF truthy_str(start_str) /\ current_num = start_str.val THEN k ELSE start_idx,
         IF truthy_str(end_str) /\ current_num = end_str.val THEN k + 1 ELSE end_idx>>

\* the loop of lines 281-286, from position k with the indices so far
RECURSIVE filter_scan(_, _, _, _, _, _)
filter_scan(lst, k, start_str, end_str, start_idx, end_idx) ==
    IF k >= Len(lst) THEN <<start_idx, end_idx>>
    ELSE LET idx == filter_step(k, scene_objs[lst[k + 1]].scene_number,
                                start_str, end_str, start_idx, end_idx)
         IN filter_scan(lst, k + 1, start_str, end_str, idx[1], idx[2])

filter_scenes(lst, start_num, end_num) ==
    IF ~truthy_str(start_num) /\ ~truthy_str(end_num) THEN lst
    ELSE LET start_str == IF truthy_str(start_num)
                          THEN Some(upper(strip(start_num.val))) ELSE None
             end_str == IF truthy_str(end_num)
                        THEN Some(upper(strip(end_num.val))) ELSE None
             idx == filter_scan(lst, 0, start_str, end_str, 0, Len(lst))
         IN Slice(lst, idx[1], idx[2])


-----------------------------------------------------------------------------
(* Configuration: src/core/config.py                                       *)

PERFORMANCE_LEVELS == [Eco |-> 1, Balanced |-> 2, Turbo |-> 4]

\* worker_threads of DEFAULT_CONFIG, which main.py and gui_app.py construct the
\* analyzer with
DEFAULT_WORKER_THREADS == 4

\* the ProjectConfig fields ScriptAnalyzer reads; worker_threads is one of the
\* values set_performance_level can store (the default, 4, is Turbo's)
ProjectConfig ==
    [worker_threads : {PERFORMANCE_LEVELS[m] : m \in DOMAIN PERFORMANCE_LEVELS},
     use_continuity_agent : BOOLEAN,
     use_flag_agent : BOOLEAN]

-----------------------------------------------------------------------------
(* Category Router: the static category -> pass tables the analyzer imports *)

PASS_1_CATEGORIES == {"Cast Members", "Background Actors", "Stunts"}
PASS_2_CATEGORIES ==
    {"Vehicles", "Art Department", "Set Dressing", "Greenery", "Mechanical Effects"}
PASS_3_CATEGORIES ==
    {"Props", "Special Effects", "Wardrobe", "Makeup/Hair", "Animals",
     "Animal Wrangler", "Additional Labor", "Visual Effects"}
PASS_4_CATEGORIES == {"Camera", "Music", "Sound", "Special Equipment", "Miscellaneous"}

\* a routing that lets every selected category through
active_pass_unfiltered(cats, table) == cats

\* [c for c in categories if c in PASS_n_CATEGORIES]
active_pass(cats, table) == SelectSeq(cats, LAMBDA c : c \in table)

\* category selections handed to the entry point: one routed to the gear pass
\* alone (no core category, one category that no table routes), one routed to
\* the core, set and action passes
CategoryChoices ==
    {<<"Camera", "Security">>,
     <<"Cast Members", "Vehicles", "Props">>}

-----------------------------------------------------------------------------
(* Values the client returns (OllamaClient.generate_breakdown)             *)

\* elements as the model words them: category and name are strings
Elem(c, n) == [category |-> c, name |-> n]
ElemUniverse ==
    {Elem(<<"P", "r", "o", "p", "s">>, <<"b", "a", "g">>),
     Elem(<<"V", "e", "h", "i", "c", "l", "e", "s">>, <<"V", "A", "N">>)}

\* entries of a "continuity_notes" list: a dict (with a key models substitute
\* for the required one), a bare string, a number
NoteUniverse ==
    {[kind |-> "dict", item_name |-> "bags", item |-> "", resolved_specificity |-> "DUFFEL BAGS",
      specificity_mapping |-> "", note |-> "", call_out |-> "use Sc 1 bags", message |-> ""],
     [kind |-> "str", item_name |-> "", item |-> "", resolved_specificity |-> "",
      specificity_mapping |-> "", note |-> "window now shattered", call_out |-> "", message |-> ""],
     [kind |-> "number", item_name |-> "", item |-> "", resolved_specificity |-> "",
      specificity_mapping |-> "", note |-> "", call_out |-> "", message |-> ""]}

\* the "severity" of a flag entry as JSON gives it: absent, an integer, a float
\* (in tenths), or a value int() rejects (null, a word)
Severity(t, n) == [type |-> t, num |-> n]
SeverityUniverse ==
    {Severity("absent", 0), Severity("int", 0), Severity("int", 4),
     Severity("float", 39), Severity("word", 0)}

\* entries of a "review_flags" list: a dict, or a bare string; note_type tells
\* whether the entry's "note" is a string or a JSON null
FlagEntry(k, s) ==
    [kind |-> k, flag_type |-> "Stunts", note |-> "fall", note_type |-> "str",
     severity |-> s]
FlagUniverse ==
    {FlagEntry("dict", s) : s \in SeverityUniverse} \cup {FlagEntry("str", Severity("absent", 0))}

\* all sequences over S of length at most n
SeqsUpTo(S, n) == UNION {[1..k -> S] : k \in 0..n}

\* a parsed JSON value: kind "none" is the Failure value None, "list" and "str"
\* stand for a non-empty JSON array / string, "dict" for an object whose keys
\* are `keys`
Json(kind, keys, elements, notes, notes_is_list, flags) ==
    [kind |-> kind, keys |-> keys, elements |-> elements, continuity_notes |-> notes,
     notes_is_list |-> notes_is_list, review_flags |-> flags]

Failure == Json("none", {}, <<>>, <<>>, TRUE, <<>>)
JsonList == Json("list", {}, <<>>, <<>>, TRUE, <<>>)
JsonStr == Json("str", {}, <<>>, <<>>, TRUE, <<>>)
Dict(keys) == Json("dict", keys, <<>>, <<>>, TRUE, <<>>)

\* {"elements": []}: the default of a technical pass that is not run
NoElements == Json("dict", {"elements"}, <<>>, <<>>, TRUE, <<>>)

\* Python truthiness of a parsed value: None and {} are falsy
truthy(r) == r.kind \in {"list", "str"} \/ (r.kind = "dict" /\ r.keys # {})

\* what the core request can come back with, when the client may still return
\* n list entries
CoreResponses(n) ==
    {Failure, JsonList, Dict({}), Dict({"synopsis"})}
    \cup {Json("dict", {"synopsis", "elements"}, l, <<>>, TRUE, <<>>) :
             l \in SeqsUpTo(ElemUniverse, n)}

\* what a technical request can come back with
TechnicalResponses(n) ==
    {Failure, JsonList, Dict({"error"})}
    \cup {Json("dict", {"elements"}, l, <<>>, TRUE, <<>>) :
             l \in SeqsUpTo(ElemUniverse, n)}

\* what a continuity request can come back with
ContinuityResponses(n) ==
    {Failure, JsonList, Dict({"synopsis"}),
     Json("dict", {"continuity_notes"}, <<>>, <<>>, FALSE, <<>>)}
    \cup {Json("dict", {"continuity_notes"}, <<>>, l, TRUE, <<>>) :
             l \in SeqsUpTo(NoteUniverse, n)}

\* what a flag-scan request can come back with
FlagResponses(n) ==
    {Failure, JsonStr, Dict({"synopsis"})}
    \cup {Json("dict", {"review_flags"}, <<>>, <<>>, TRUE, l) :
             l \in SeqsUpTo(FlagUniverse, n)}

-----------------------------------------------------------------------------
(* Scene dicts as the parser builds them (src/core/parser.py)              *)

Digits == <<"1", "2", "3", "4", "5", "6", "7", "8", "9">>

\* the dict split_into_scenes appends for the k-th scene, with identifier id;
\* `keys` are the enrichment keys the analyzer has added so far
parsed_scene(k, id) ==
    [scene_number |-> id, scene_index |-> k, pages_whole |-> 0, pages_eighths |-> k,
     int_ext |-> "INT", set_name |-> "WAREHOUSE", day_night |-> "DAY",
     raw_text |-> "They load the bags into the van.",
     keys |-> {}, synopsis |-> "", elements |-> <<>>, continuity_notes |-> "",
     review_flags |-> <<>>]

\* dict.get('elements', [])
get_elements(scene) == IF "elements" \in scene.keys THEN scene.elements ELSE <<>>

-----------------------------------------------------------------------------
(* ScriptAnalyzer._process_single_scene: one coroutine of run_breakdown     *)

\* a coroutine object created by run_breakdown (line 84), not yet started
new_task(ref) ==
    [pc |-> "new", scene |-> ref,
     original_math |-> [pages_whole |-> 0, pages_eighths |-> 0,
                        scene_number |-> <<>>, scene_index |-> 0],
     core_result |-> Failure, set_result |-> NoElements,
     action_result |-> NoElements, gear_result |-> NoElements, ret |-> "pending"]

\* a coroutine that has ended: its frame is gone, its outcome is what gather sees
finished_task(ref, outcome) ==
    [new_task(ref) EXCEPT !.pc = IF outcome = "raised" THEN "raised" ELSE "done",
                          !.ret = outcome]

\* mutant of sem_free: the semaphore admits everyone
sem_always_free(sem) == TRUE

\* `async with self.semaphore` can be entered (line 95)
sem_free(sem) == sem > 0

\* mutant of cancelled: the stop flag is not looked at
cancelled_never(running) == FALSE

\* `if not self.is_running` (line 96)
cancelled(running) == ~running

\* lines 114-119
capture_math(scene) ==
    [pages_whole |-> scene.pages_whole, pages_eighths |-> scene.pages_eighths,
     scene_number |-> scene.scene_number, scene_index |-> scene.scene_index]

\* every coroutine goes from the core request straight to the merge
next_pass_core_only(stage, cats) == "merge"

\* a coroutine that looks at the stop flag before each technical request
next_pass_checking_stop(stage, cats) ==
    IF ~is_running THEN "merge"
    ELSE CASE stage = "core" /\ active_pass(cats, PASS_2_CATEGORIES) # <<>> -> "set"
           [] stage \in {"core", "set"} /\ active_pass(cats, PASS_3_CATEGORIES) # <<>>
                -> "action"
           [] stage \in {"core", "set", "action"}
              /\ active_pass(cats, PASS_4_CATEGORIES) # <<>> -> "gear"
           [] OTHER -> "merge"

\* the await that follows the one at `stage`: the technical passes whose
\* category list is non-empty, in the order of lines 139, 152, 165; "merge"
\* when no request is left
next_pass(stage, cats) ==
    LET p2 == active_pass(cats, PASS_2_CATEGORIES) # <<>>
        p3 == active_pass(cats, PASS_3_CATEGORIES) # <<>>
        p4 == active_pass(cats, PASS_4_CATEGORIES) # <<>>
    IN CASE stage = "core" /\ p2 -> "set"
         [] stage \in {"core", "set"} /\ p3 -> "action"
         [] stage \in {"core", "set", "action"} /\ p4 -> "gear"
         [] OTHER -> "merge"

\* the keys of a scene dict the parser wrote
parser_keys ==
    {"scene_number", "int_ext", "set_name", "day_night", "pages_whole", "pages_eighths",
     "raw_text", "scene_index"}

\* the values a core result carries under the keys the parser wrote, when the
\* model returns such keys: none of them is the parser's value
model_values ==
    [scene_number |-> <<"9", "9">>, int_ext |-> "EXT", set_name |-> "HARBOUR",
     day_night |-> "NIGHT", pages_whole |-> 9, pages_eighths |-> 9,
     raw_text |-> "They unload the van.", scene_index |-> 99]

\* scene.update(core_result) for a dict result (line 179): every key of the
\* result is written, the parser's keys included
dict_update(scene, r) ==
    [f \in DOMAIN scene |->
        CASE f = "keys" -> scene.keys \cup (r.keys \cap {"synopsis", "elements"})
          [] f = "synopsis" /\ "synopsis" \in r.keys -> "They load the van."
          [] f = "elements" /\ "elements" \in r.keys -> r.elements
          [] f \in parser_keys /\ f \in r.keys -> model_values[f]
          [] OTHER -> scene[f]]

\* what one technical result adds to all_elements (lines 187-188); a non-empty
\* list or string holds no "elements" member and adds nothing
technical_elements(res) ==
    IF truthy(res) /\ res.kind = "dict" /\ "elements" \in res.keys
    THEN res.elements ELSE <<>>

\* mutant of all_elements: the gear pass is left out of the merge
all_elements_without_gear(t) ==
    (IF "elements" \in t.core_result.keys THEN t.core_result.elements ELSE <<>>)
    \o technical_elements(t.set_result) \o technical_elements(t.action_result)

\* lines 182-188
all_elements(t) ==
    (IF "elements" \in t.core_result.keys THEN t.core_result.elements ELSE <<>>)
    \o technical_elements(t.set_result) \o technical_elements(t.action_result)
    \o technical_elements(t.gear_result)

\* a merge that ends without putting the parser's values back
restore_nothing(scene, m) == scene

\* scene.update(original_math) (line 193)
restore_math(scene, m) ==
    [scene EXCEPT !.pages_whole = m.pages_whole, !.pages_eighths = m.pages_eighths,
                  !.scene_number = m.scene_number, !.scene_index = m.scene_index]

\* a merge that keeps the technical results of a scene whose core result is
\* missing
merge_keeping_technical(t, scene) ==
    IF truthy(t.core_result) /\ t.core_result.kind # "dict"
    THEN [outcome |-> "raised", scene |-> scene]
    ELSE [outcome |-> "scene",
          scene |-> restore_math(
              [(IF truthy(t.core_result) THEN dict_update(scene, t.core_result)
                ELSE scene) EXCEPT
                  !.keys = @ \cup {"elements"},
                  !.elements = technical_elements(t.set_result)
                               \o technical_elements(t.action_result)
                               \o technical_elements(t.gear_result)],
              t.original_math)]

\* lines 177-197 for a coroutine holding all its results: how it ends and the
\* scene dict it leaves. scene.update raises on a truthy value that is no dict.
merge(t, scene) ==
    IF truthy(t.core_result)
    THEN IF t.core_result.kind # "dict"
         THEN [outcome |-> "raised", scene |-> scene]
         ELSE [outcome |-> "scene",
               scene |-> restore_math(
                   [dict_update(scene, t.core_result) EXCEPT
                       !.keys = @ \cup {"elements"}, !.elements = all_elements(t)],
                   t.original_math)]
    ELSE [outcome |-> "none", scene |-> scene]

\* asyncio.gather over the coroutines (line 87): it raises as soon as one of them
\* raised, and returns when all of them returned
gather_state(ts) ==
    IF \E t \in DOMAIN ts : ts[t].pc = "raised" THEN "raised"
    ELSE IF \A t \in DOMAIN ts : ts[t].pc = "done" THEN "done"
    ELSE "pending"

\* the results of gather taken last coroutine first
breakdown_results_reversed(ts) ==
    LET kept == SelectSeq(ts, LAMBDA t : t.ret = "scene")
    IN [k \in DOMAIN kept |-> kept[Len(kept) + 1 - k].scene]

\* [r for r in results if r is not None] (line 88)
breakdown_results(ts) ==
    LET kept == SelectSeq(ts, LAMBDA t : t.ret = "scene")
    IN [k \in DOMAIN kept |-> kept[k].scene]

\* requests the client has not answered yet
harvest_awaits == {"core", "set", "action", "gear"}
pipeline_awaits == {"matchmaker", "observer", "flag"}

-----------------------------------------------------------------------------
(* ScriptAnalyzer.run_continuity_pass (after both requests have returned)   *)

\* `a or b`: the first non-empty string
or_str(a, b) == IF a # "" THEN a ELSE b

\* lines 223-230: the line one note is rendered to; <<>> for an entry that is
\* neither a dict nor a string
format_note(n) ==
    CASE n.kind = "dict" ->
           <<or_str(n.item_name, or_str(n.item, "Unknown")) \o " -> "
             \o or_str(n.resolved_specificity, or_str(n.specificity_mapping, "N/A"))
             \o ": " \o or_str(n.note, or_str(n.call_out, or_str(n.message, "")))>>
      [] n.kind = "str" -> <<n.note>>
      [] OTHER -> <<>>

RECURSIVE formatted(_)
formatted(notes) ==
    IF notes = <<>> THEN <<>> ELSE format_note(Head(notes)) \o formatted(Tail(notes))

\* "\n".join(lines)
RECURSIVE join_lines(_)
join_lines(lines) ==
    IF lines = <<>> THEN ""
    ELSE IF Len(lines) = 1 THEN lines[1]
    ELSE lines[1] \o "\n" \o join_lines(Tail(lines))

\* `res.get('continuity_notes') if res else []`, then `x if isinstance(x, list)
\* else []` (lines 211-216), for a result that is None or a dict
notes_of(res) ==
    IF truthy(res) /\ "continuity_notes" \in res.keys /\ res.notes_is_list
    THEN res.continuity_notes ELSE <<>>

\* mutant of combined_notes: the pass gives up unless both requests succeeded
combined_notes_both_or_nothing(a, b) ==
    IF truthy(a) /\ truthy(b) THEN notes_of(a) \o notes_of(b) ELSE <<>>

\* lines 215-216
combined_notes(a, b) == notes_of(a) \o notes_of(b)

\* lines 211-232: a truthy result that is no dict has no .get and raises
continuity_pass(a, b) ==
    IF (truthy(a) /\ a.kind # "dict") \/ (truthy(b) /\ b.kind # "dict")
    THEN [outcome |-> "raised", notes |-> ""]
    ELSE [outcome |-> "ok",
          notes |-> IF combined_notes(a, b) = <<>> THEN ""
                    ELSE join_lines(formatted(combined_notes(a, b)))]

-----------------------------------------------------------------------------
(* ScriptAnalyzer.run_flag_pass and ReviewFlag (src/core/models.py)         *)

\* int(f.get("severity", 1)): [ok, val]; int() truncates a float towards zero
\* and raises on null and on a word
python_int(sev) ==
    CASE sev.type = "absent" -> [ok |-> TRUE, val |-> 1]
      [] sev.type = "int" -> [ok |-> TRUE, val |-> sev.num]
      [] sev.type = "float" -> [ok |-> TRUE, val |-> sev.num \div 10]
      [] OTHER -> [ok |-> FALSE, val |-> 0]

\* mutant of severity_valid: the Field carries no range
severity_unconstrained(v) == TRUE

\* ReviewFlag.severity: Field(ge=1, le=3)
severity_valid(v) == v >= 1 /\ v <= 3

\* the body of the loop, lines 242-249: the flags one entry appends; an entry
\* that is no dict has no .get, ReviewFlag (models.py lines 39-43) rejects a
\* note that is no str, and those errors are caught like the others
flag_of(f) ==
    IF f.kind # "dict" THEN <<>>
    ELSE LET s == python_int(f.severity)
         IN IF s.ok /\ severity_valid(s.val) /\ f.note_type = "str"
            THEN <<[flag_type |-> f.flag_type, note |-> f.note, severity |-> s.val]>>
            ELSE <<>>

\* a loop that ends at the first entry that appends nothing
RECURSIVE flags_of_until_invalid(_)
flags_of_until_invalid(entries) ==
    IF entries = <<>> \/ flag_of(Head(entries)) = <<>> THEN <<>>
    ELSE flag_of(Head(entries)) \o flags_of_until_invalid(Tail(entries))

RECURSIVE flags_of(_)
flags_of(entries) ==
    IF entries = <<>> THEN <<>> ELSE flag_of(Head(entries)) \o flags_of(Tail(entries))

\* lines 239-250: response.get raises on None and on any value that is no dict
flag_pass(response) ==
    IF response.kind # "dict"
    THEN [outcome |-> "raised", flags |-> <<>>]
    ELSE [outcome |-> "ok",
          flags |-> IF "review_flags" \in response.keys
                    THEN flags_of(response.review_flags) ELSE <<>>]

-----------------------------------------------------------------------------
(* ScriptAnalyzer._update_history                                           *)

\* mutant of update_history: the name is stored as the model wrote it
RECURSIVE update_history_keeping_case(_, _)
update_history_keeping_case(history, elements) ==
    IF elements = <<>> THEN history
    ELSE LET cat == upper(Head(elements).category)
             name == Head(elements).name
             known == IF cat \in DOMAIN history THEN history[cat] ELSE {}
         IN update_history_keeping_case(
                [c \in DOMAIN history \cup {cat} |->
                    IF c = cat THEN known \cup {name} ELSE history[c]],
                Tail(elements))

\* an update that also trims the name
RECURSIVE update_history_trimming(_, _)
update_history_trimming(history, elements) ==
    IF elements = <<>> THEN history
    ELSE LET cat == upper(Head(elements).category)
             name == upper(strip(Head(elements).name))
             known == IF cat \in DOMAIN history THEN history[cat] ELSE {}
         IN update_history_trimming(
                [c \in DOMAIN history \cup {cat} |->
                    IF c = cat THEN known \cup {name} ELSE history[c]],
                Tail(elements))

RECURSIVE update_history(_, _)
update_history(history, elements) ==
    IF elements = <<>> THEN history
    ELSE LET cat == upper(Head(elements).category)
             name == upper(Head(elements).name)
             known == IF cat \in DOMAIN history THEN history[cat] ELSE {}
         IN update_history(
                [c \in DOMAIN history \cup {cat} |->
                    IF c = cat THEN known \cup {name} ELSE history[c]],
                Tail(elements))

\* what the catalog keeps, for a name, of the scene that wrote it: line 259 adds
\* the name to a set and stores nothing else
cited_scene(history, cat, name) == None

\* Python compares strings by code point: space, "/", digits, upper case, lower case
CodeOrder == <<" ", "/", "0">> \o Digits \o UpperCase \o LowerCase
code_point(c) == CHOOSE k \in DOMAIN CodeOrder : CodeOrder[k] = c

\* a < b for two strings
RECURSIVE str_less(_, _)
str_less(a, b) ==
    IF b = <<>> THEN FALSE
    ELSE IF a = <<>> THEN TRUE
    ELSE IF Head(a) = Head(b) THEN str_less(Tail(a), Tail(b))
    ELSE code_point(Head(a)) < code_point(Head(b))

\* sorted(list(items))
RECURSIVE sorted(_)
sorted(items) ==
    IF items = {} THEN <<>>
    ELSE LET m == CHOOSE x \in items : \A y \in items \ {x} : str_less(x, y)
         IN <<m>> \o sorted(items \ {m})

\* _get_history_summary: "CATALOG EMPTY." for an empty catalog, else one line
\* "CATEGORY {cat}: {a, b}" per category; a line is kept as its category and its
\* items in the order they are printed
get_history_summary(history) ==
    [empty |-> DOMAIN history = {},
     lines |-> {[category |-> c, items |-> sorted(history[c])] : c \in DOMAIN history}]

-----------------------------------------------------------------------------
(* run_full_pipeline between two awaits                                     *)

NoResult == [status |-> "none", value |-> <<>>]
Returned(v) == [status |-> "returned", value |-> v]
Raised == [status |-> "raised", value |-> <<>>]

\* the part of the state run_full_pipeline writes while it runs from one await
\* to the next
pipeline_state ==
    [pc |-> pc, i |-> i, current |-> current, processed_scenes |-> processed_scenes,
     tasks |-> tasks, result |-> result, scene_objs |-> scene_objs,
     master_history |-> master_history, issued |-> issued,
     active_scenes |-> active_scenes, res_a |-> res_a]

\* line 44 reaching position k, then line 50: run_breakdown([scene]) creates the
\* scene's coroutine and awaits it; past the last scene, line 73 returns
enter_scene(P, k) ==
    IF k <= Len(P.active_scenes)
    THEN [P EXCEPT !.pc = "harvest", !.i = k, !.res_a = Failure,
                   !.tasks = <<new_task(P.active_scenes[k])>>]
    ELSE [P EXCEPT !.pc = "done", !.result = Returned(P.processed_scenes)]

\* line 71, and the loop going on
finish_scene(P) ==
    enter_scene([P EXCEPT !.processed_scenes = Append(@, P.current)], P.i + 1)

\* a history update followed by the flag request whatever the configuration says
after_continuity_flag_always(P) ==
    LET Q == [P EXCEPT !.master_history =
                 update_history(@, get_elements(P.scene_objs[P.current]))]
    IN [Q EXCEPT !.pc = "flag", !.issued = @ \cup {<<P.current, "flag">>}]

\* lines 60-67: the history update, then the flag request when the agent is on
after_continuity(P) ==
    LET Q == [P EXCEPT !.master_history =
                 update_history(@, get_elements(P.scene_objs[P.current]))]
    IN IF config.use_flag_agent
       THEN [Q EXCEPT !.pc = "flag", !.issued = @ \cup {<<P.current, "flag">>}]
       ELSE finish_scene(Q)

\* line 51: harvest_results[0] raises IndexError on an empty list
first_result(P, harvest_results) ==
    IF harvest_results = <<>> THEN [P EXCEPT !.pc = "raised", !.result = Raised]
    ELSE [P EXCEPT !.current = harvest_results[1]]

\* mutant of after_harvest: the scene's own elements enter the catalog before
\* the catalog is rendered for its Matchmaker
after_harvest_history_first(P, harvest_results) ==
    LET Q == first_result(P, harvest_results)
        U == [Q EXCEPT !.master_history =
                 update_history(@, get_elements(Q.scene_objs[Q.current]))]
    IN IF Q.pc = "raised" THEN Q
       ELSE IF config.use_continuity_agent
       THEN [U EXCEPT !.pc = "matchmaker", !.issued = @ \cup {<<U.current, "matchmaker">>}]
       ELSE after_continuity(Q)

\* lines 51-57: run_breakdown has returned harvest_results
after_harvest(P, harvest_results) ==
    LET Q == first_result(P, harvest_results)
    IN IF Q.pc = "raised" THEN Q
       ELSE IF config.use_continuity_agent
       THEN [Q EXCEPT !.pc = "matchmaker", !.issued = @ \cup {<<Q.current, "matchmaker">>}]
       ELSE after_continuity(Q)

\* the state run_full_pipeline leaves when it suspends or ends
SetPipeline(P) ==
    /\ pc' = P.pc
    /\ i' = P.i
    /\ current' = P.current
    /\ processed_scenes' = P.processed_scenes
    /\ tasks' = P.tasks
    /\ result' = P.result
    /\ scene_objs' = P.scene_objs
    /\ master_history' = P.master_history
    /\ issued' = P.issued
    /\ active_scenes' = P.active_scenes
    /\ res_a' = P.res_a

-----------------------------------------------------------------------------
(* Spec: one run of an entry point of ScriptAnalyzer                        *)

\* the range handed to run_full_pipeline: none, a lower bound, a lower bound
\* that lies after the upper bound
RangeChoices ==
    {<<None, None>>, <<Some(<<"2">>), None>>, <<Some(<<"2">>), Some(<<"1">>)>>}

\* the analyzer after __init__ (lines 22-27), with the arguments of the run
InitRun(n, workers) ==
    /\ scenes = [k \in 1..n |-> k]
    /\ categories \in CategoryChoices
    /\ config \in ProjectConfig
    /\ config.worker_threads \in workers
    /\ semaphore = config.worker_threads
    /\ master_history = <<>>
    /\ is_running = TRUE
    /\ entry = "none"
    /\ pc = "idle"
    /\ active_scenes = <<>>
    /\ i = 0
    /\ current = 0
    /\ processed_scenes = <<>>
    /\ tasks = <<>>
    /\ res_a = Failure
    /\ result = NoResult
    /\ runs = 0
    /\ items_left = MaxItems
    /\ returned_elements = [k \in 1..n |-> <<>>]
    /\ core_failed = {}
    /\ core_ok = {}
    /\ flag_failed = {}
    /\ valid_flags = [k \in 1..n |-> 0]
    /\ dropped_flags = [k \in 1..n |-> 0]
    /\ begun_stopped = {}
    /\ issued = {}

Init ==
    /\ \E n \in 1..MaxScenes :
         /\ scene_objs = [k \in 1..n |-> parsed_scene(k, <<Digits[k]>>)]
         /\ InitRun(n, {DEFAULT_WORKER_THREADS})
    /\ \E rg \in RangeChoices : from_scene = rg[1] /\ to_scene = rg[2]
    /\ refiltered = <<>>
    /\ fpc = "off"
    /\ client = ClientOff

history_vars == <<items_left, returned_elements, core_failed, core_ok, flag_failed,
                  valid_flags, dropped_flags, begun_stopped>>
input_vars == <<scenes, categories, from_scene, to_scene, config, refiltered, fpc,
                client>>

\* run_full_pipeline is called: lines 39-50
StartPipeline ==
    /\ entry = "none"
    /\ entry' = "pipeline"
    /\ runs' = runs + 1
    /\ SetPipeline(enter_scene(
           [pipeline_state EXCEPT
               !.active_scenes = filter_scenes(scenes, from_scene, to_scene)], 1))
    /\ UNCHANGED <<input_vars, history_vars, semaphore, is_running>>

\* run_breakdown is called on the whole list: lines 83-87
StartBreakdown ==
    /\ entry = "none"
    /\ from_scene = None /\ to_scene = None
    /\ entry' = "breakdown"
    /\ runs' = runs + 1
    /\ tasks' = [k \in DOMAIN scenes |-> new_task(scenes[k])]
    /\ pc' = "gather"
    /\ UNCHANGED <<input_vars, history_vars, semaphore, is_running, res_a,
                   scene_objs, master_history, active_scenes, i, current,
                   processed_scenes, result, issued>>

\* stop(), called from the GUI thread while a run is on (line 292)
Stop ==
    /\ entry # "none"
    /\ result.status = "none"
    /\ is_running
    /\ is_running' = FALSE
    /\ UNCHANGED <<runs, input_vars, history_vars, semaphore, res_a, scene_objs,
                   master_history, active_scenes, i, current, processed_scenes,
                   result, issued, tasks, pc, entry>>

\* a block that keeps its permit when its body raised
release_unless_raised(sem, outcome) == IF outcome = "raised" THEN sem ELSE sem + 1

\* the end of `async with self.semaphore` (line 95): the permit goes back
\* however the body ended
release(sem, outcome) == sem + 1

\* a coroutine of run_breakdown runs from its start to its first await
\* (lines 95-135), or to its return when the run is stopped (line 97)
TaskStart(t) ==
    /\ tasks[t].pc = "new"
    /\ sem_free(semaphore)
    /\ IF cancelled(is_running)
       THEN /\ tasks' = [tasks EXCEPT ![t] = finished_task(tasks[t].scene, "none")]
            /\ UNCHANGED <<semaphore, issued>>
       ELSE /\ tasks' = [tasks EXCEPT
                           ![t].pc = "core",
                           ![t].original_math = capture_math(scene_objs[tasks[t].scene])]
            /\ semaphore' = semaphore - 1
            /\ issued' = issued \cup {<<tasks[t].scene, "core">>}
    /\ begun_stopped' = IF is_running THEN begun_stopped
                        ELSE begun_stopped \cup {tasks[t].scene}
    /\ UNCHANGED <<runs, input_vars, items_left, returned_elements, core_failed, core_ok,
                   flag_failed, valid_flags, dropped_flags, is_running, res_a, scene_objs,
                   master_history, active_scenes, i, current, processed_scenes, result,
                   pc, entry>>

\* the request a coroutine awaits at `stage` returns r, which is stored in
\* `field`; the coroutine runs on to its next await, or merges and returns
HarvestResponse(t, stage, field, r) ==
    /\ tasks[t].pc = stage
    /\ LET s == tasks[t].scene
           trec == [tasks[t] EXCEPT ![field] = r]
           nxt == next_pass(stage, categories)
           m == merge(trec, scene_objs[s])
       IN /\ IF nxt # "merge"
             THEN /\ tasks' = [tasks EXCEPT ![t] = [trec EXCEPT !.pc = nxt]]
                  /\ issued' = issued \cup {<<s, nxt>>}
                  /\ UNCHANGED <<semaphore, scene_objs>>
             ELSE /\ tasks' = [tasks EXCEPT ![t] = finished_task(s, m.outcome)]
                  /\ scene_objs' = [scene_objs EXCEPT ![s] = m.scene]
                  /\ semaphore' = release(semaphore, m.outcome)
                  /\ UNCHANGED issued
          /\ items_left' = items_left - Len(r.elements)
          /\ returned_elements' =
                [returned_elements EXCEPT ![s] =
                    @ \o (IF r.kind = "dict" /\ "elements" \in r.keys
                          THEN r.elements ELSE <<>>)]
          /\ core_failed' = IF stage = "core" /\ r = Failure
                            THEN core_failed \cup {s} ELSE core_failed
          /\ core_ok' = IF stage = "core" /\ r.kind = "dict" /\ r.keys # {}
                        THEN core_ok \cup {s} ELSE core_ok
    /\ UNCHANGED <<runs, input_vars, flag_failed, valid_flags, dropped_flags, begun_stopped,
                   is_running,
                   res_a, master_history, active_scenes, i, current,
                   processed_scenes, result, pc, entry>>

CoreResponse(t, r) == HarvestResponse(t, "core", "core_result", r)
SetResponse(t, r) == HarvestResponse(t, "set", "set_result", r)
ActionResponse(t, r) == HarvestResponse(t, "action", "action_result", r)
GearResponse(t, r) == HarvestResponse(t, "gear", "gear_result", r)

\* run_breakdown, called on the whole list, resumes from the gather (lines 87-88)
BreakdownReturn ==
    /\ entry = "breakdown"
    /\ pc = "gather"
    /\ gather_state(tasks) # "pending"
    /\ IF gather_state(tasks) = "raised"
       THEN pc' = "raised" /\ result' = Raised
       ELSE pc' = "done" /\ result' = Returned(breakdown_results(tasks))
    /\ UNCHANGED <<runs, input_vars, history_vars, semaphore, is_running, res_a,
                   scene_objs, master_history, active_scenes, i, current,
                   processed_scenes, issued, tasks, entry>>

\* run_full_pipeline resumes from run_breakdown([scene]) (lines 50-67)
HarvestReturn ==
    /\ entry = "pipeline"
    /\ pc = "harvest"
    /\ gather_state(tasks) # "pending"
    /\ IF gather_state(tasks) = "raised"
       THEN SetPipeline([pipeline_state EXCEPT !.pc = "raised", !.result = Raised])
       ELSE SetPipeline(after_harvest(pipeline_state, breakdown_results(tasks)))
    /\ UNCHANGED <<runs, input_vars, history_vars, semaphore, is_running, entry>>

\* the Matchmaker request returns; the Observer request is issued (lines 203-206)
MatchmakerResponse(r) ==
    /\ entry = "pipeline"
    /\ pc = "matchmaker"
    /\ res_a' = r
    /\ pc' = "observer"
    /\ issued' = issued \cup {<<current, "observer">>}
    /\ items_left' = items_left - Len(r.continuity_notes)
    /\ UNCHANGED <<runs, input_vars, returned_elements, core_failed, core_ok, flag_failed,
                   valid_flags, dropped_flags, begun_stopped, semaphore, is_running, scene_objs,
                   master_history, active_scenes, i, current, processed_scenes,
                   result, tasks, entry>>

\* the Observer request returns; run_continuity_pass finishes and
\* run_full_pipeline runs on to its next await (lines 58-67)
ObserverResponse(r) ==
    /\ entry = "pipeline"
    /\ pc = "observer"
    /\ items_left' = items_left - Len(r.continuity_notes)
    /\ LET c == continuity_pass(res_a, r)
       IN IF c.outcome = "raised"
          THEN SetPipeline([pipeline_state EXCEPT !.pc = "raised", !.result = Raised])
          ELSE SetPipeline(after_continuity(
                   [pipeline_state EXCEPT
                       !.scene_objs[current].continuity_notes = c.notes,
                       !.scene_objs[current].keys = @ \cup {"continuity_notes"}]))
    /\ UNCHANGED <<runs, input_vars, returned_elements, core_failed, core_ok, flag_failed,
                   valid_flags, dropped_flags, begun_stopped, semaphore, is_running, entry>>

\* the flag-scan request returns; run_flag_pass finishes and run_full_pipeline
\* runs on to the next scene or to its return (lines 68-73)
FlagResponse(r) ==
    /\ entry = "pipeline"
    /\ pc = "flag"
    /\ items_left' = items_left - Len(r.review_flags)
    /\ flag_failed' = IF r = Failure THEN flag_failed \cup {current} ELSE flag_failed
    /\ valid_flags' =
          [valid_flags EXCEPT ![current] =
              Cardinality({k \in DOMAIN r.review_flags :
                             /\ r.review_flags[k].kind = "dict"
                             /\ r.review_flags[k].note_type = "str"
                             /\ python_int(r.review_flags[k].severity).ok
                             /\ python_int(r.review_flags[k].severity).val \in {1, 2, 3}})]
    /\ dropped_flags' =
          [dropped_flags EXCEPT ![current] = Len(r.review_flags) - valid_flags'[current]]
    /\ LET f == flag_pass(r)
       IN IF f.outcome = "raised"
          THEN SetPipeline([pipeline_state EXCEPT !.pc = "raised", !.result = Raised])
          ELSE SetPipeline(finish_scene(
                   [pipeline_state EXCEPT
                       !.scene_objs[current].review_flags = f.flags,
                       !.scene_objs[current].keys = @ \cup {"review_flags"}]))
    /\ UNCHANGED <<runs, input_vars, returned_elements, core_failed, core_ok, begun_stopped,
                   semaphore, is_running, entry>>

\* one run of run_full_pipeline, the client returning any of the values above
Next ==
    \/ StartPipeline
    \/ Stop
    \/ \E t \in DOMAIN tasks : TaskStart(t)
    \/ \E t \in DOMAIN tasks : \E r \in CoreResponses(items_left) : CoreResponse(t, r)
    \/ \E t \in DOMAIN tasks : \E r \in TechnicalResponses(items_left) : SetResponse(t, r)
    \/ \E t \in DOMAIN tasks : \E r \in TechnicalResponses(items_left) : ActionResponse(t, r)
    \/ \E t \in DOMAIN tasks : \E r \in TechnicalResponses(items_left) : GearResponse(t, r)
    \/ HarvestReturn
    \/ \E r \in ContinuityResponses(items_left) : MatchmakerResponse(r)
    \/ \E r \in ContinuityResponses(items_left) : ObserverResponse(r)
    \/ \E r \in FlagResponses(items_left) : FlagResponse(r)

Spec == Init /\ [][Next]_vars

-----------------------------------------------------------------------------
(* SpecConcurrency: either entry point, run_breakdown gathering the whole   *)
(* list, the client answering each request with a failure or an object      *)
(* without list entries                                                    *)

\* a request fails, or succeeds with an object that carries no list entry
PlainResponses == {Failure, Dict({"synopsis"})}

NextConcurrency ==
    \/ StartPipeline
    \/ StartBreakdown
    \/ Stop
    \/ \E t \in DOMAIN tasks : TaskStart(t)
    \/ \E t \in DOMAIN tasks : \E r \in PlainResponses : CoreResponse(t, r)
    \/ \E t \in DOMAIN tasks : \E r \in PlainResponses : SetResponse(t, r)
    \/ \E t \in DOMAIN tasks : \E r \in PlainResponses : ActionResponse(t, r)
    \/ \E t \in DOMAIN tasks : \E r \in PlainResponses : GearResponse(t, r)
    \/ BreakdownReturn
    \/ HarvestReturn
    \/ \E r \in PlainResponses : MatchmakerResponse(r)
    \/ \E r \in PlainResponses : ObserverResponse(r)
    \/ \E r \in PlainResponses : FlagResponse(r)

InitConcurrency ==
    /\ \E n \in 1..MaxScenes :
         /\ scene_objs = [k \in 1..n |-> parsed_scene(k, <<Digits[k]>>)]
         /\ InitRun(n, {PERFORMANCE_LEVELS[m] : m \in DOMAIN PERFORMANCE_LEVELS})
    /\ from_scene = None
    /\ to_scene = None
    /\ refiltered = <<>>
    /\ fpc = "off"
    /\ client = ClientOff

SpecConcurrency == InitConcurrency /\ [][NextConcurrency]_vars

-----------------------------------------------------------------------------
(* SpecFilter: _filter_scenes applied to a scene list, then to its own      *)
(* result with the same bounds                                             *)

\* scene identifiers as the parser and a hand-edited script can produce them
FilterIds == {<<"5">>, <<"8">>, <<"4", "a">>, <<"4", "A">>}

\* what the caller can pass as a bound: nothing, the empty string, an identifier
\* of the list (as typed: lower case, padded), an identifier that is not in it
FilterBounds ==
    {None, Some(<<>>), Some(<<"5">>), Some(<<"8">>), Some(<<"4", "a">>),
     Some(<<" ", "8">>), Some(<<"9">>)}

\* the scene list of the documented scenario
ScenarioIds == <<<<"1">>, <<"4", "A">>, <<"5">>, <<"6">>, <<"7">>, <<"8">>, <<"9">>>>

\* an analyzer that is not running anything
IdleAnalyzer(n) ==
    /\ scenes = [k \in 1..n |-> k]
    /\ categories = <<>>
    /\ config = [worker_threads |-> DEFAULT_WORKER_THREADS,
                 use_continuity_agent |-> TRUE, use_flag_agent |-> TRUE]
    /\ semaphore = config.worker_threads
    /\ master_history = <<>>
    /\ is_running = TRUE
    /\ entry = "none"
    /\ pc = "idle"
    /\ i = 0
    /\ current = 0
    /\ processed_scenes = <<>>
    /\ tasks = <<>>
    /\ res_a = Failure
    /\ result = NoResult
    /\ runs = 0
    /\ items_left = 0
    /\ returned_elements = [k \in 1..n |-> <<>>]
    /\ core_failed = {}
    /\ core_ok = {}
    /\ flag_failed = {}
    /\ valid_flags = [k \in 1..n |-> 0]
    /\ dropped_flags = [k \in 1..n |-> 0]
    /\ begun_stopped = {}
    /\ issued = {}

InitFilter ==
    /\ \/ \E n \in 0..MaxFilterLen :
            /\ \E ids \in [1..n -> FilterIds] :
                 scene_objs = [k \in 1..n |-> parsed_scene(k, ids[k])]
            /\ IdleAnalyzer(n)
            /\ from_scene \in FilterBounds
            /\ to_scene \in FilterBounds
       \/ /\ scene_objs = [k \in DOMAIN ScenarioIds |-> parsed_scene(k, ScenarioIds[k])]
          /\ IdleAnalyzer(Len(ScenarioIds))
          /\ from_scene = Some(<<"5">>)
          /\ to_scene = Some(<<"8">>)
    /\ active_scenes = <<>>
    /\ refiltered = <<>>
    /\ fpc = "start"
    /\ client = ClientOff

\* _filter_scenes(scenes, from_scene, to_scene)
ApplyFilter ==
    /\ fpc = "start"
    /\ active_scenes' = filter_scenes(scenes, from_scene, to_scene)
    /\ fpc' = "filtered"
    /\ UNCHANGED <<scene_objs, scenes, from_scene, to_scene, refiltered, run_vars>>

\* _filter_scenes(active_scenes, from_scene, to_scene)
ReapplyFilter ==
    /\ fpc = "filtered"
    /\ refiltered' = filter_scenes(active_scenes, from_scene, to_scene)
    /\ fpc' = "refiltered"
    /\ UNCHANGED <<scene_objs, scenes, from_scene, to_scene, active_scenes, run_vars>>

NextFilter == ApplyFilter \/ ReapplyFilter

SpecFilter == InitFilter /\ [][NextFilter]_vars

-----------------------------------------------------------------------------
(* Range filter claims (SpecFilter)                                        *)

\* the identifier of the scene at 0-based position k of lst, trimmed and upper-cased
filter_key(lst, k) == upper(strip(scene_objs[lst[k + 1]].scene_number))

\* the 0-based positions of lst whose identifier equals the bound, both trimmed
\* and upper-cased; none for an absent or blank bound
Matches(lst, bound) ==
    IF truthy_str(bound) /\ strip(bound.val) # <<>>
    THEN {k \in 0..(Len(lst) - 1) : filter_key(lst, k) = upper(strip(bound.val))}
    ELSE {}

MinOf(S) == CHOOSE x \in S : \A y \in S : x <= y
MaxOf(S) == CHOOSE x \in S : \A y \in S : x >= y

\* one past the last match of the upper bound, the list length without a match
EndIndex(lst, bound) ==
    IF Matches(lst, bound) = {} THEN Len(lst) ELSE MaxOf(Matches(lst, bound)) + 1

\* C7 as stated: the result is scenes[s:e] with s the FIRST match of the lower
\* bound (0 without one) and e one past the last match of the upper bound.
C7_FirstFromLastTo ==
    fpc # "start" =>
        active_scenes =
            Slice(scenes,
                  IF Matches(scenes, from_scene) = {} THEN 0
                  ELSE MinOf(Matches(scenes, from_scene)),
                  EndIndex(scenes, to_scene))

\* C7 amended: the result is scenes[s:e] with s the LAST position whose
\* identifier equals the lower bound, both trimmed and upper-cased (0 without a
\* match or a bound), and e one past the last position that equals the upper
\* bound (the list length without a match or a bound); the documented scenario
\* gives scenes "5", "6", "7", "8".
C7_LastFromLastTo ==
    fpc # "start" =>
        /\ active_scenes =
               Slice(scenes,
                     IF Matches(scenes, from_scene) = {} THEN 0
                     ELSE MaxOf(Matches(scenes, from_scene)),
                     EndIndex(scenes, to_scene))
        /\ Len(scenes) = Len(ScenarioIds) => active_scenes = <<3, 4, 5, 6>>

\* a list in which the lower bound occurs twice (once in another letter case) has
\* been cut at its second occurrence
C7_Witness ==
    /\ fpc = "filtered"
    /\ Cardinality(Matches(scenes, from_scene)) >= 2
    /\ \E k \in Matches(scenes, from_scene) :
          scene_objs[scenes[k + 1]].scene_number # from_scene.val
    /\ Matches(scenes, to_scene) # {}
    /\ active_scenes # <<>>
    /\ active_scenes # scenes

\* C8: filtering the filtered list again with the same bounds returns the same
\* list, also when identifiers repeat.
C8_FilterIdempotent ==
    fpc = "refiltered" => refiltered = active_scenes

\* a list with a repeated identifier was cut at both ends, and cut again
C8_Witness ==
    /\ fpc = "refiltered"
    /\ Cardinality(Matches(scenes, to_scene)) >= 2
    /\ Matches(scenes, from_scene) # {}
    /\ active_scenes # <<>>
    /\ Len(active_scenes) < Len(scenes)

-----------------------------------------------------------------------------
(* Pipeline claims (Spec)                                                  *)

Range(f) == {f[k] : k \in DOMAIN f}

\* the scene has left harvesting: no coroutine of it waits for a request
harvested(s) ==
    \A t \in DOMAIN tasks : tasks[t].scene = s => tasks[t].pc \notin harvest_awaits \cup {"new"}

\* C1: a scene whose core request returned Failure is not in the list the
\* pipeline builds, and the pipeline does not end with an exception because of it.
C1_CoreFailureOnlyDropsScene ==
    \A s \in core_failed :
        /\ s \notin Range(processed_scenes)
        /\ result.status # "raised"

\* C2: whatever the client returns to each request, run_full_pipeline never ends
\* with an exception.
C2_PipelineNeverRaises ==
    entry = "pipeline" => result.status # "raised"

\* how often e occurs in a list
Count(lst, e) == Cardinality({k \in DOMAIN lst : lst[k] = e})

C4_FlagFailureKeepsScene ==
    \A s \in flag_failed :
        /\ result.status # "raised"
        /\ scene_objs[s].review_flags = <<>>
        /\ s \in Range(processed_scenes)

\* the lines a result's notes are rendered to, joined
rendered(res) ==
    IF formatted(notes_of(res)) = <<>> THEN "" ELSE join_lines(formatted(notes_of(res)))

\* C5: when the Observer request returns and each of the two continuity results
\* is Failure or an object, at least one of them Failure, the notes stored for the
\* scene are exactly the rendered notes of the request that did not fail (the
\* empty string when both failed), the pipeline does not raise, and the scene goes
\* on to the flag stage or into the output list.
C5_ContinuityRequestsIndependent ==
    [][pc = "observer" => \A r \in ContinuityResponses(items_left) :
          (/\ ObserverResponse(r)
           /\ {res_a.kind, r.kind} \subseteq {"none", "dict"}
           /\ "none" \in {res_a.kind, r.kind})
          => /\ scene_objs'[current].continuity_notes =
                   (IF res_a = Failure THEN rendered(r) ELSE rendered(res_a))
             /\ result'.status # "raised"
             /\ pc' = "flag" \/ current \in Range(processed_scenes')]_vars

\* the Matchmaker request failed and the scene carries the Observer's notes
C5_Witness ==
    /\ pc = "flag"
    /\ res_a = Failure
    /\ scene_objs[current].continuity_notes # ""

\* C6: every stored flag has a severity of 1, 2 or 3, and a scene's flag list
\* holds exactly as many flags as its response had entries whose severity int()
\* turns into 1, 2 or 3: the others are dropped, none is clamped.
C6_SeverityInRange ==
    \A s \in DOMAIN scene_objs :
        /\ \A k \in DOMAIN scene_objs[s].review_flags :
              scene_objs[s].review_flags[k].severity \in {1, 2, 3}
        /\ "review_flags" \in scene_objs[s].keys =>
              Len(scene_objs[s].review_flags) = valid_flags[s]

\* a flag response had an entry that was dropped and one that was stored
C6_Witness ==
    \E s \in DOMAIN scene_objs :
        /\ "review_flags" \in scene_objs[s].keys
        /\ dropped_flags[s] >= 1
        /\ Len(scene_objs[s].review_flags) >= 1

-----------------------------------------------------------------------------
(* Concurrency and cancellation claims (SpecConcurrency)                   *)

\* requests the client has been sent and has not answered
InFlight ==
    Cardinality({t \in DOMAIN tasks : tasks[t].pc \in harvest_awaits})
    + (IF pc \in pipeline_awaits THEN 1 ELSE 0)

\* C9: at no moment of a run are more requests in flight than worker_threads.
C9_InFlightBounded ==
    InFlight <= config.worker_threads

\* as many requests as workers are in flight and a coroutine waits for a permit
C9_Witness ==
    /\ InFlight = config.worker_threads
    /\ semaphore = 0
    /\ \E t \in DOMAIN tasks : tasks[t].pc = "new"

\* C10: no request of any kind is issued for a scene whose processing began
\* with the stop flag set, and run_full_pipeline starts no scene after it.
C10_NoRequestAfterStop ==
    /\ \A s \in begun_stopped :
          \A k \in harvest_awaits \cup pipeline_awaits : <<s, k>> \notin issued
    /\ entry = "pipeline" => Cardinality(begun_stopped) <= 1

\* a scene was processed with requests, the run was stopped, and the next scene
\* began and ended without a request
C10_Witness ==
    /\ ~is_running
    /\ \E s \in begun_stopped : \E t \in DOMAIN tasks :
          tasks[t].scene = s /\ tasks[t].pc = "done"
    /\ \E s \in DOMAIN scene_objs : s \notin begun_stopped /\ <<s, "core">> \in issued

-----------------------------------------------------------------------------
(* Cancellation of run_full_pipeline (Spec)                                *)

\* C11: a run of run_full_pipeline in which a scene began with the stop flag
\* set does not end with an exception, and a stopped run that returns hands
\* back the scenes processed so far, in order.
C11_StopReturnsProcessedScenes ==
    /\ begun_stopped # {} => result.status # "raised"
    /\ ~is_running /\ result.status = "returned" => result.value = processed_scenes

-----------------------------------------------------------------------------
(* History catalog claims (Spec)                                           *)

\* the (category, name) pairs the catalog holds
CatalogKeys(history) == UNION {{<<c, n>> : n \in history[c]} : c \in DOMAIN history}

\* the (upper-cased category, upper-cased name) pairs of a scene's elements
ElementKeys(s) ==
    {<<upper(get_elements(scene_objs[s])[k].category),
       upper(get_elements(scene_objs[s])[k].name)>> : k \in DOMAIN get_elements(scene_objs[s])}

\* the scenes of this run whose history update has run, in order
UpdatedScenes == processed_scenes \o (IF pc = "flag" THEN <<current>> ELSE <<>>)

-----------------------------------------------------------------------------
(* SpecSession: the GUI's use of one analyzer: run_full_pipeline is called  *)
(* again after it returned, and core results carry whatever keys and names  *)
(* the model chose                                                         *)

\* elements whose name is a placeholder or blank, next to a real one
SessionElems ==
    {Elem(<<"P", "r", "o", "p", "s">>, <<"b", "a", "g">>),
     Elem(<<"P", "r", "o", "p", "s">>, <<"n", "/", "a">>),
     Elem(<<"P", "r", "o", "p", "s">>, <<" ">>)}

\* core results: a failure, a synopsis, a result that repeats keys of the
\* scene header, a result with elements
SessionCoreResponses(n) ==
    {Failure, Dict({"synopsis"}),
     Dict({"synopsis", "set_name", "int_ext", "day_night", "raw_text", "scene_number"})}
    \cup {Json("dict", {"synopsis", "elements"}, l, <<>>, TRUE, <<>>) :
             l \in SeqsUpTo(SessionElems, n)}

\* start_analysis once more (analysis_handlers.py lines 32-33, 95-107) after a
\* run returned: the stop flag is reset and AnalysisWorker.run calls
\* run_full_pipeline on the same analyzer with the scene list parsed anew
Rerun ==
    /\ entry = "pipeline"
    /\ result.status = "returned"
    /\ runs < MaxRuns
    /\ runs' = runs + 1
    /\ is_running' = TRUE
    /\ SetPipeline(enter_scene(
           [pipeline_state EXCEPT
               !.scene_objs = [k \in DOMAIN scene_objs |-> parsed_scene(k, <<Digits[k]>>)],
               !.active_scenes = filter_scenes(scenes, from_scene, to_scene),
               !.processed_scenes = <<>>,
               !.current = 0,
               !.result = NoResult,
               !.issued = {}], 1))
    /\ items_left' = MaxItems
    /\ returned_elements' = [k \in DOMAIN scene_objs |-> <<>>]
    /\ core_failed' = {}
    /\ core_ok' = {}
    /\ flag_failed' = {}
    /\ valid_flags' = [k \in DOMAIN scene_objs |-> 0]
    /\ dropped_flags' = [k \in DOMAIN scene_objs |-> 0]
    /\ begun_stopped' = {}
    /\ UNCHANGED <<input_vars, semaphore, entry>>

NextSession ==
    \/ StartPipeline
    \/ Rerun
    \/ Stop
    \/ \E t \in DOMAIN tasks : TaskStart(t)
    \/ \E t \in DOMAIN tasks : \E r \in SessionCoreResponses(items_left) : CoreResponse(t, r)
    \/ \E t \in DOMAIN tasks : \E r \in PlainResponses : SetResponse(t, r)
    \/ \E t \in DOMAIN tasks : \E r \in PlainResponses : ActionResponse(t, r)
    \/ \E t \in DOMAIN tasks : \E r \in PlainResponses : GearResponse(t, r)
    \/ HarvestReturn
    \/ \E r \in PlainResponses : MatchmakerResponse(r)
    \/ \E r \in PlainResponses : ObserverResponse(r)
    \/ \E r \in PlainResponses : FlagResponse(r)

InitSession ==
    /\ \E n \in 1..MaxScenes :
         /\ scene_objs = [k \in 1..n |-> parsed_scene(k, <<Digits[k]>>)]
         /\ InitRun(n, {DEFAULT_WORKER_THREADS})
    /\ from_scene = None
    /\ to_scene = None
    /\ refiltered = <<>>
    /\ fpc = "off"
    /\ client = ClientOff

SpecSession == InitSession /\ [][NextSession]_vars

-----------------------------------------------------------------------------
(* Claims about a session (SpecSession)                                    *)

\* C13: the catalog rendered for the Matchmaker of the first scene of a second
\* run on the same analyzer is empty.
C13_CatalogEmptyAtRunStart ==
    runs >= 2 /\ pc = "matchmaker" /\ i = 1 =>
        get_history_summary(master_history).empty

\* a name that is empty after trimming, or one of "null", "none", "n/a" in any case
placeholder(name) ==
    upper(strip(name)) \in {<<>>, <<"N", "U", "L", "L">>, <<"N", "O", "N", "E">>,
                            <<"N", "/", "A">>}

\* C15: no stored element and no catalog entry has a placeholder name.
C15_NoPlaceholderStored ==
    /\ \A s \in DOMAIN scene_objs :
          \A k \in DOMAIN get_elements(scene_objs[s]) :
              ~placeholder(get_elements(scene_objs[s])[k].name)
    /\ \A key \in CatalogKeys(master_history) : ~placeholder(key[2])

\* C17: every scene the pipeline has put in its output list still has the
\* identifier, interior/exterior tag, set name, time of day, raw text and page
\* length the parser gave it.
C17_SegmenterFieldsKept ==
    \A s \in Range(processed_scenes) :
        \A f \in {"scene_number", "int_ext", "set_name", "day_night", "raw_text",
                  "pages_whole", "pages_eighths"} :
            scene_objs[s][f] = parsed_scene(s, <<Digits[s]>>)[f]

-----------------------------------------------------------------------------
(* Claims about the order of catalog updates and reads (Spec)              *)

\* the (category, name) pairs the rendered catalog text lists
SummaryKeys(summary) ==
    UNION {{<<l.category, l.items[k]>> : k \in DOMAIN l.items} : l \in summary.lines}

\* C14: while the Matchmaker request of a scene is out, the catalog text it
\* was given lists exactly the elements of the scenes processed before it in
\* this run: every element of every earlier surviving scene, and nothing
\* contributed by the scene itself or a later one.
C14_CatalogOfEarlierScenesOnly ==
    pc = "matchmaker" =>
        /\ SummaryKeys(get_history_summary(master_history)) =
              UNION {ElementKeys(s) : s \in Range(processed_scenes)}
        /\ get_history_summary(master_history).empty =
              (\A s \in Range(processed_scenes) : ElementKeys(s) = {})

\* the second scene's Matchmaker request is out, the first scene put an
\* element in the catalog, and the second scene has an element of its own
C14_Witness ==
    /\ pc = "matchmaker"
    /\ Len(processed_scenes) = 1
    /\ ElementKeys(processed_scenes[1]) # {}
    /\ ~(ElementKeys(current) \subseteq ElementKeys(processed_scenes[1]))

-----------------------------------------------------------------------------
(* SpecRange: either entry point, run_full_pipeline with or without a       *)
(* scene range, every performance level                                     *)

InitRange ==
    /\ \E n \in 1..MaxScenes :
         /\ scene_objs = [k \in 1..n |-> parsed_scene(k, <<Digits[k]>>)]
         /\ InitRun(n, {PERFORMANCE_LEVELS[m] : m \in DOMAIN PERFORMANCE_LEVELS})
    /\ \E rg \in RangeChoices : from_scene = rg[1] /\ to_scene = rg[2]
    /\ refiltered = <<>>
    /\ fpc = "off"
    /\ client = ClientOff

SpecRange == InitRange /\ [][NextConcurrency]_vars

\* the list an entry point works on: run_full_pipeline filters its argument by
\* the range, run_breakdown takes its argument as it is
InputList ==
    IF entry = "pipeline" THEN filter_scenes(scenes, from_scene, to_scene) ELSE scenes

RECURSIVE IsSubsequence(_, _)
IsSubsequence(a, b) ==
    IF a = <<>> THEN TRUE
    ELSE IF b = <<>> THEN FALSE
    ELSE IF Head(a) = Head(b) THEN IsSubsequence(Tail(a), Tail(b))
    ELSE IsSubsequence(a, Tail(b))

\* C16: the list an entry point returns is a subsequence of its range-filtered
\* input: input order, each scene at most once, no longer than the input.
C16_ReturnedIsSubsequence ==
    result.status = "returned" =>
        /\ IsSubsequence(result.value, InputList)
        /\ \A a, b \in DOMAIN result.value : result.value[a] = result.value[b] => a = b
        /\ Len(result.value) <= Len(InputList)

\* a run returned the second of two scenes only: the first one was dropped
C16_Witness ==
    /\ result.status = "returned"
    /\ Len(InputList) = 2
    /\ result.value = <<InputList[2]>>

-----------------------------------------------------------------------------
(* OllamaClient.generate_breakdown (src/ai/ollama_client.py)                *)
(*                                                                         *)
(* The text of a response is a sequence of tokens: a markdown fence with   *)
(* or without the json tag, a JSON document, text that is not JSON, a      *)
(* newline, a space.  "FENCE" stands for three backquotes.  The value      *)
(* generate_breakdown hands back is "None" or the Python value of the JSON *)
(* document.                                                               *)

JsonDocuments == {"{}", "null"}
Tokens == {"FENCEjson", "FENCE", "x", "\n", " "} \cup JsonDocuments

\* what json.loads makes of a document
python_value(doc) == IF doc = "null" THEN "None" ELSE doc

is_space(tok) == tok \in {" ", "\n"}

RECURSIVE text_lstrip(_)
text_lstrip(t) == IF t # <<>> /\ is_space(Head(t)) THEN text_lstrip(Tail(t)) ELSE t

RECURSIVE text_rstrip(_)
text_rstrip(t) ==
    IF t # <<>> /\ is_space(t[Len(t)]) THEN text_rstrip(SubSeq(t, 1, Len(t) - 1)) ELSE t

\* text.strip()
text_strip(t) == text_rstrip(text_lstrip(t))

\* json.loads(text): one document, white space around it allowed; anything
\* else is a JSONDecodeError
json_loads(t) ==
    LET body == text_strip(t)
    IN IF Len(body) = 1 /\ body[1] \in JsonDocuments
       THEN [ok |-> TRUE, value |-> python_value(body[1])]
       ELSE [ok |-> FALSE, value |-> "JSONDecodeError"]

\* the first position from k on that holds no white space (where the white space run ends)
RECURSIVE skip_space(_, _)
skip_space(t, k) == IF k <= Len(t) /\ is_space(t[k]) THEN skip_space(t, k + 1) ELSE k

\* re.sub with the pattern of line 72 and re.MULTILINE, from position k on:
\* a tagged fence at the start of a line goes with the white space after it,
\* a bare fence at the end of a line goes
RECURSIVE re_sub_fences(_, _)
re_sub_fences(t, k) ==
    IF k > Len(t) THEN <<>>
    ELSE IF t[k] = "FENCEjson" /\ (k = 1 \/ t[k - 1] = "\n")
    THEN re_sub_fences(t, skip_space(t, k + 1))
    ELSE IF t[k] = "FENCE" /\ (k = Len(t) \/ t[k + 1] = "\n")
    THEN re_sub_fences(t, k + 1)
    ELSE <<t[k]>> \o re_sub_fences(t, k + 1)

\* _safe_json_parse (lines 63-77)
safe_json_parse(t) ==
    IF json_loads(t).ok THEN json_loads(t).value
    ELSE LET cleaned_text == re_sub_fences(text_strip(t), 1)
         IN IF json_loads(cleaned_text).ok THEN json_loads(cleaned_text).value
            ELSE "None"

\* an exception handler that lets the exception through
on_exception_propagate(e) == "raised"

\* except Exception (lines 59-61)
on_exception(e) == "None"

\* lines 53-57: the response has arrived
on_response(raw_content) ==
    IF raw_content = <<>> THEN "None" ELSE safe_json_parse(raw_content)

\* everything generate_breakdown leaves alone
analyzer_vars ==
    <<scene_objs, scenes, categories, from_scene, to_scene, config, semaphore,
      master_history, is_running, entry, pc, active_scenes, i, current,
      processed_scenes, tasks, res_a, result, runs, refiltered, fpc,
      items_left, returned_elements, core_failed, core_ok, flag_failed,
      valid_flags, dropped_flags, begun_stopped, issued>>

\* generate_breakdown is called and awaits the server (lines 40-46)
ClientCall ==
    /\ client.pc \in {"off", "done"}
    /\ client' = [pc |-> "awaiting", session |-> TRUE, reply |-> "none",
                  raw_content |-> <<>>, outcome |-> "pending"]
    /\ UNCHANGED analyzer_vars

\* the request raises (connection refused, timeout, error status, ...)
ClientRaise ==
    /\ client.pc = "awaiting"
    /\ client' = [client EXCEPT !.pc = "done", !.reply = "exception",
                                !.outcome = on_exception("ConnectionError")]
    /\ UNCHANGED analyzer_vars

\* the request returns a response whose 'response' text is t (empty when the
\* key is missing)
ClientRespond(t) ==
    /\ client.pc = "awaiting"
    /\ client' = [client EXCEPT !.pc = "done", !.reply = "response",
                                !.raw_content = t, !.outcome = on_response(t)]
    /\ UNCHANGED analyzer_vars

NextClient ==
    \/ ClientCall
    \/ ClientRaise
    \/ /\ client.pc = "awaiting"
       /\ \E t \in SeqsUpTo(Tokens, MaxTextLen) : ClientRespond(t)

InitClient ==
    /\ scene_objs = <<>>
    /\ IdleAnalyzer(0)
    /\ from_scene = None
    /\ to_scene = None
    /\ active_scenes = <<>>
    /\ refiltered = <<>>
    /\ fpc = "off"
    /\ client = ClientOff

SpecClient == InitClient /\ [][NextClient]_vars

\* the text is one JSON document, white space and whole lines of fences aside
FencedDocument(t) ==
    \E k \in DOMAIN t :
        /\ t[k] \in JsonDocuments
        /\ \A j \in DOMAIN t \ {k} : t[j] \in {"FENCEjson", "FENCE", " ", "\n"}

\* C18: generate_breakdown never raises.  A transport error, an empty
\* response and a response that is no JSON document even with its code fences
\* stripped give None; a response that is a JSON document, bare or inside
\* fences the cleanup strips, gives the parsed value.
C18_ClientNeverRaises ==
    client.pc = "done" =>
        /\ client.outcome \in {"None"} \cup {python_value(d) : d \in JsonDocuments}
        /\ client.reply = "exception" => client.outcome = "None"
        /\ client.reply = "response" /\ client.raw_content = <<>> =>
              client.outcome = "None"
        /\ client.reply = "response" /\ ~FencedDocument(client.raw_content) =>
              client.outcome = "None"
        /\ \A d \in JsonDocuments :
              /\ client.reply = "response"
              /\ \/ text_strip(client.raw_content) = <<d>>
                 \/ client.raw_content = <<"FENCEjson", "\n", d, "\n", "FENCE">>
                 \/ client.raw_content = <<"FENCEjson", d, "FENCE">>
                 \/ client.raw_content = <<"FENCE", "\n", d, "\n", "FENCE">>
              => client.outcome = python_value(d)

\* a fenced document was parsed on the second attempt
C18_Witness ==
    /\ client.pc = "done"
    /\ client.raw_content = <<"FENCEjson", "\n", "{}", "\n", "FENCE">>
    /\ client.outcome = "{}"

-----------------------------------------------------------------------------
(* Progress reporting (Spec)                                                *)

\* the progress reports run_full_pipeline makes while it works on the scene at
\* position k of `total`: lines 44-71 call nothing but the client and the
\* analyzer's own methods, and the signature (lines 29-35) takes no callback
progress_calls(k, total) == <<>>

\* the four checkpoints of the scene at position k, in tenths of a scene
Checkpoints(k, total) ==
    [c \in 1..4 |-> [position |-> 10 * (k - 1) + <<2, 5, 8, 10>>[c], total |-> total]]

\* C19: for every processed scene the progress callback was invoked four
\* times, in order, at offsets 0.2, 0.5, 0.8 and 1.0 of the scene's position,
\* each time with the total scene count.
C19_FourCheckpointsPerScene ==
    \A k \in 1..Len(processed_scenes) :
        progress_calls(k, Len(active_scenes)) = Checkpoints(k, Len(active_scenes))

-----------------------------------------------------------------------------
(* The technical passes of one scene (SpecConcurrency)                      *)

\* the technical passes whose category subset is not empty
ActiveTechnical ==
    {p \in {"set", "action", "gear"} :
        active_pass(categories, CASE p = "set" -> PASS_2_CATEGORIES
                                  [] p = "action" -> PASS_3_CATEGORIES
                                  [] OTHER -> PASS_4_CATEGORIES) # <<>>}

-----------------------------------------------------------------------------
(* The requests of one scene's harvest (SpecConcurrency)                    *)

\* the pass table a harvesting request is routed by
TableOf(kind) ==
    CASE kind = "core" -> PASS_1_CATEGORIES
      [] kind = "set" -> PASS_2_CATEGORIES
      [] kind = "action" -> PASS_3_CATEGORIES
      [] OTHER -> PASS_4_CATEGORIES

\* the category list a harvesting request carries: selected_core_cats=active_p1
\* (line 129), selected_tech_cats=active_p2 / active_p3 / active_p4 (lines 144,
\* 157, 170)
request_categories(kind, cats) == active_pass(cats, TableOf(kind))

\* the technical passes some selected category is routed to
RoutedPasses ==
    {p \in {"set", "action", "gear"} :
        \E k \in DOMAIN categories : categories[k] \in TableOf(p)}

\* the scene's coroutine has started its requests and awaits none
HarvestOver(s) ==
    /\ <<s, "core">> \in issued
    /\ \A t \in DOMAIN tasks : tasks[t].scene = s => tasks[t].pc \notin harvest_awaits

\* what holds of the requests issued so far
C21_Requests ==
    \A s \in DOMAIN scene_objs :
        /\ \A p \in {"set", "action", "gear"} :
              <<s, p>> \in issued => p \in RoutedPasses /\ <<s, "core">> \in issued
        /\ HarvestOver(s) => \A p \in RoutedPasses : <<s, p>> \in issued
        /\ \A t \in DOMAIN tasks :
              tasks[t].scene = s /\ tasks[t].pc \in harvest_awaits =>
                  <<s, "core">> \in issued
        /\ \A kind \in harvest_awaits :
              <<s, kind>> \in issued =>
                  \A k \in DOMAIN request_categories(kind, categories) :
                      /\ request_categories(kind, categories)[k] \in TableOf(kind)
                      /\ \E j \in DOMAIN categories :
                            categories[j] = request_categories(kind, categories)[k]

\* a coroutine that comes to await a request had not issued that request
\* before, and has issued it now
C21_IssuedOnce ==
    \A t \in DOMAIN tasks' :
        /\ tasks'[t].pc \in harvest_awaits
        /\ t \in DOMAIN tasks => tasks[t].pc # tasks'[t].pc
        => /\ <<tasks'[t].scene, tasks'[t].pc>> \notin issued
           /\ <<tasks'[t].scene, tasks'[t].pc>> \in issued'

\* C21: every scene that starts harvesting gets exactly one core request,
\* whether or not a core category is selected, exactly one request for each of
\* set / action / gear that some selected category is routed to and none for
\* the others; a request carries only selected categories of its own table, so
\* a category of no table is in no request.
C21_OneRequestPerRoutedPass == []C21_Requests /\ [][C21_IssuedOnce]_vars

\* a scene was harvested with a selection that has no core category and one
\* category of no table: a core and a gear request, no set or action request
C21_Witness ==
    /\ categories = <<"Camera", "Security">>
    /\ HarvestOver(1)
    /\ {k \in harvest_awaits : <<1, k>> \in issued} = {"core", "gear"}

-----------------------------------------------------------------------------
(* A scene whose core request failed (Spec)                                 *)

\* the catalog key of an element the client returned
KeyOf(e) == <<upper(e.category), upper(e.name)>>

\* C22: a scene whose core request failed is left as the parser built it,
\* whatever its technical requests returned; no continuity or flag request is
\* issued for it, and nothing it returned enters the history catalog.
C22_FailedCoreLeavesSceneAlone ==
    \A s \in core_failed :
        /\ scene_objs[s] = parsed_scene(s, <<Digits[s]>>)
        /\ \A k \in pipeline_awaits : <<s, k>> \notin issued
        /\ s \notin Range(UpdatedScenes)
        /\ \A j \in DOMAIN returned_elements[s] :
              KeyOf(returned_elements[s][j]) \in CatalogKeys(master_history) =>
                  \E o \in Range(UpdatedScenes) :
                      KeyOf(returned_elements[s][j]) \in ElementKeys(o)

\* the core request of a scene failed, a technical request of it returned
\* elements, and its harvest is over
C22_Witness ==
    \E s \in core_failed :
        /\ returned_elements[s] # <<>>
        /\ pc # "harvest"

-----------------------------------------------------------------------------
(* SpecHistory: _update_history called with element lists whose names       *)
(* differ in letter case and in surrounding white space                     *)

HistoryElems ==
    {Elem(<<"P", "r", "o", "p", "s">>, <<"b", "a", "g">>),
     Elem(<<"P", "R", "O", "P", "S">>, <<"B", "a", "g">>),
     Elem(<<"P", "r", "o", "p", "s">>, <<" ", "b", "a", "g">>),
     Elem(<<"P", "r", "o", "p", "s">>, <<"B", "A", "G", " ">>),
     Elem(<<"V", "e", "h", "i", "c", "l", "e", "s">>, <<"b", "a", "g">>)}

\* self._update_history(elements) (lines 252-259); returned_elements[1] keeps
\* every element the calls were given
UpdateHistory(elements) ==
    /\ Len(returned_elements[1]) + Len(elements) <= MaxItems + 1
    /\ master_history' = update_history(master_history, elements)
    /\ returned_elements' = [returned_elements EXCEPT ![1] = @ \o elements]
    /\ UNCHANGED <<scene_objs, scenes, categories, from_scene, to_scene, config,
                   semaphore, is_running, entry, pc, active_scenes, i, current,
                   processed_scenes, tasks, res_a, result, runs, refiltered, fpc,
                   client, items_left, core_failed, core_ok, flag_failed,
                   valid_flags, dropped_flags, begun_stopped, issued>>

NextHistory ==
    \E elements \in SeqsUpTo(HistoryElems, 2) \ {<<>>} : UpdateHistory(elements)

InitHistory ==
    /\ scene_objs = <<parsed_scene(1, <<"1">>)>>
    /\ IdleAnalyzer(1)
    /\ from_scene = None
    /\ to_scene = None
    /\ active_scenes = <<>>
    /\ refiltered = <<>>
    /\ fpc = "off"
    /\ client = ClientOff

SpecHistory == InitHistory /\ [][NextHistory]_vars

\* the elements _update_history was given so far
Given == {returned_elements[1][k] : k \in DOMAIN returned_elements[1]}

-----------------------------------------------------------------------------
(* SpecFlags: runs of run_full_pipeline in which the flag scan returns      *)
(* lists that mix valid, invalid and malformed entries                      *)

\* flag entries: severities 2, absent, 4 and a word; a bare string; an object
\* whose note is null
FlagPassUniverse ==
    {FlagEntry("dict", Severity("int", 2)), FlagEntry("dict", Severity("absent", 0)),
     FlagEntry("dict", Severity("int", 4)), FlagEntry("dict", Severity("word", 0)),
     FlagEntry("str", Severity("absent", 0)),
     [FlagEntry("dict", Severity("int", 2)) EXCEPT !.note_type = "null"]}

FlagPassResponses(n) ==
    {Dict({"synopsis"})}
    \cup {Json("dict", {"review_flags"}, <<>>, <<>>, TRUE, l) :
             l \in SeqsUpTo(FlagPassUniverse, n)}

NextFlags ==
    \/ StartPipeline
    \/ \E t \in DOMAIN tasks : TaskStart(t)
    \/ \E t \in DOMAIN tasks : CoreResponse(t, Dict({"synopsis"}))
    \/ \E t \in DOMAIN tasks : SetResponse(t, Failure)
    \/ \E t \in DOMAIN tasks : ActionResponse(t, Failure)
    \/ \E t \in DOMAIN tasks : GearResponse(t, Failure)
    \/ HarvestReturn
    \/ MatchmakerResponse(Failure)
    \/ ObserverResponse(Failure)
    \/ /\ pc = "flag"
       /\ \E r \in FlagPassResponses(items_left) : FlagResponse(r)

SpecFlags == InitSession /\ [][NextFlags]_vars

\* an entry ReviewFlag accepts: an object with a string note whose severity
\* int() turns into 1, 2 or 3 (1 when the key is absent)
ValidEntry(f) ==
    /\ f.kind = "dict"
    /\ f.note_type = "str"
    /\ python_int(f.severity).ok
    /\ python_int(f.severity).val \in {1, 2, 3}

\* the flags of the valid entries of a response, in response order
ValidFlags(r) ==
    LET kept == SelectSeq(r.review_flags, ValidEntry)
    IN [k \in DOMAIN kept |->
           [flag_type |-> kept[k].flag_type, note |-> kept[k].note,
            severity |-> python_int(kept[k].severity).val]]

\* C24: when the flag scan answers with an object, the flags stored for the
\* scene are exactly the valid entries of the response in response order:
\* an invalid or malformed entry removes no valid one, and the scene goes on
\* into the output list.
C24_EntriesValidatedOneByOne ==
    [][pc = "flag" => \A r \in FlagPassResponses(items_left) :
          FlagResponse(r)
          => /\ scene_objs'[current].review_flags = ValidFlags(r)
             /\ result'.status # "raised"
             /\ current \in Range(processed_scenes')]_vars

\* a response held a valid entry and an entry that was dropped, and the scene
\* carries that one flag
C24_Witness ==
    \E s \in Range(processed_scenes) :
        /\ Len(scene_objs[s].review_flags) = 1
        /\ dropped_flags[s] = 1

-----------------------------------------------------------------------------
(* The order of stages in one run of run_full_pipeline (Spec)               *)

AllKinds == harvest_awaits \cup pipeline_awaits

\* C25: scenes are worked on one at a time and each in the order harvest,
\* continuity (when enabled), history update, flag scan (when enabled): no
\* request of a later scene is issued before the scene in hand is in the
\* output list, the continuity requests follow the harvest, the flag request
\* follows the continuity requests and the history update and is issued with
\* the scene's merged element list complete, and a disabled stage issues no
\* request.
C25_StagesInOrder ==
    entry = "pipeline" /\ result.status # "raised" =>
        /\ \A k \in DOMAIN active_scenes :
              /\ k > i => \A kind \in AllKinds : <<active_scenes[k], kind>> \notin issued
              /\ k < i => processed_scenes[k] = active_scenes[k]
        /\ Len(processed_scenes) = (IF pc = "done" THEN Len(active_scenes) ELSE i - 1)
        /\ \A s \in DOMAIN scene_objs :
              /\ <<s, "matchmaker">> \in issued => HarvestOver(s)
              /\ <<s, "observer">> \in issued =>
                    <<s, "matchmaker">> \in issued /\ ~(s = current /\ pc = "matchmaker")
              /\ <<s, "flag">> \in issued =>
                    /\ HarvestOver(s)
                    /\ config.use_continuity_agent =>
                          /\ <<s, "observer">> \in issued
                          /\ ~(s = current /\ pc \in {"matchmaker", "observer"})
                    /\ ElementKeys(s) \subseteq CatalogKeys(master_history)
                    /\ "elements" \in scene_objs[s].keys
                    /\ Len(get_elements(scene_objs[s])) = Len(returned_elements[s])
              /\ ~config.use_continuity_agent =>
                    <<s, "matchmaker">> \notin issued /\ <<s, "observer">> \notin issued
              /\ ~config.use_flag_agent => <<s, "flag">> \notin issued
        /\ pc \in {"matchmaker", "observer"} =>
              CatalogKeys(master_history) =
                  UNION {ElementKeys(s) : s \in Range(processed_scenes)}

\* with both agents on, the flag request of the second scene is out: the first
\* scene went through every stage, the second through all but the last
C25_Witness ==
    /\ config.use_continuity_agent /\ config.use_flag_agent
    /\ pc = "flag" /\ i = 2
    /\ processed_scenes = <<active_scenes[1]>>
    /\ ElementKeys(current) # {}
    /\ \A kind \in pipeline_awaits : <<current, kind>> \in issued

-----------------------------------------------------------------------------
(* stop() during a harvest (Spec)                                           *)

\* C26: in a stopped run, a scene whose harvest had begun before the stop has
\* had every routed pass requested once its harvest is over, and its merge is
\* the full one: the core result's synopsis and every element the passes
\* returned.
C26_StopLetsHarvestFinish ==
    ~is_running =>
        \A s \in DOMAIN scene_objs :
            HarvestOver(s) =>
                /\ s \notin begun_stopped
                /\ \A p \in RoutedPasses : <<s, p>> \in issued
                /\ s \in core_ok /\ result.status # "raised" =>
                      /\ {"synopsis", "elements"} \subseteq scene_objs[s].keys
                      /\ Len(get_elements(scene_objs[s])) = Len(returned_elements[s])

\* the run was stopped no later than the end of a scene's harvest, and the
\* scene carries elements of its technical passes
C26_Witness ==
    /\ ~is_running
    /\ pc = "harvest"
    /\ RoutedPasses # {}
    /\ \E s \in core_ok :
          /\ HarvestOver(s)
          /\ get_elements(scene_objs[s]) # <<>>

-----------------------------------------------------------------------------
(* SpecHeader: runs of run_full_pipeline in which the core result may carry *)
(* every key of the scene dict with a value of its own                      *)

HeaderCoreResponses == {Failure, Dict({"synopsis"}), Dict(parser_keys \cup {"synopsis"})}

NextHeader ==
    \/ StartPipeline
    \/ \E t \in DOMAIN tasks : TaskStart(t)
    \/ \E t \in DOMAIN tasks : \E r \in HeaderCoreResponses : CoreResponse(t, r)
    \/ \E t \in DOMAIN tasks : \E r \in PlainResponses : SetResponse(t, r)
    \/ \E t \in DOMAIN tasks : \E r \in PlainResponses : ActionResponse(t, r)
    \/ \E t \in DOMAIN tasks : \E r \in PlainResponses : GearResponse(t, r)
    \/ HarvestReturn
    \/ \E r \in PlainResponses : MatchmakerResponse(r)
    \/ \E r \in PlainResponses : ObserverResponse(r)
    \/ \E r \in PlainResponses : FlagResponse(r)

SpecHeader == InitSession /\ [][NextHeader]_vars

\* C27: a scene that survived its harvest has the scene_number, scene_index,
\* pages_whole and pages_eighths the parser gave it, also when the core result
\* carried those keys with other values.
C27_ParserMathRestored ==
    \A s \in core_ok :
        HarvestOver(s) =>
            \A f \in {"scene_number", "scene_index", "pages_whole", "pages_eighths"} :
                scene_objs[s][f] = parsed_scene(s, <<Digits[s]>>)[f]

\* a scene survived a core result that carried every key of the scene dict:
\* the result's set name is in the scene, its scene number and pages are not
C27_Witness ==
    \E s \in core_ok :
        /\ HarvestOver(s)
        /\ scene_objs[s].set_name = model_values.set_name
        /\ model_values.scene_number # scene_objs[s].scene_number
        /\ model_values.pages_eighths # scene_objs[s].pages_eighths

-----------------------------------------------------------------------------
(* SpecPermits: either entry point at every performance level, the core     *)
(* request answered with a failure, an object, or a JSON array on which the *)
(* merge raises                                                             *)

NextPermits ==
    \/ StartPipeline
    \/ StartBreakdown
    \/ Stop
    \/ \E t \in DOMAIN tasks : TaskStart(t)
    \/ \E t \in DOMAIN tasks : \E r \in PlainResponses \cup {JsonList} : CoreResponse(t, r)
    \/ \E t \in DOMAIN tasks : \E r \in PlainResponses : SetResponse(t, r)
    \/ \E t \in DOMAIN tasks : \E r \in PlainResponses : ActionResponse(t, r)
    \/ \E t \in DOMAIN tasks : \E r \in PlainResponses : GearResponse(t, r)
    \/ BreakdownReturn
    \/ HarvestReturn
    \/ \E r \in PlainResponses : MatchmakerResponse(r)
    \/ \E r \in PlainResponses : ObserverResponse(r)
    \/ \E r \in PlainResponses : FlagResponse(r)

SpecPermits == InitConcurrency /\ [][NextPermits]_vars

-----------------------------------------------------------------------------
(* SpecPerformance: the analyzer built with the default configuration, the  *)
(* performance level chosen before a run (analysis_handlers.py line 41)     *)

\* ProjectConfig.set_performance_level (config.py lines 113-119)
set_performance_level(cfg, mode) ==
    IF mode \in DOMAIN PERFORMANCE_LEVELS
    THEN [cfg EXCEPT !.worker_threads = PERFORMANCE_LEVELS[mode]]
    ELSE cfg

\* the names the performance selector can hand over, and one it cannot
ModeNames == DOMAIN PERFORMANCE_LEVELS \cup {"Ludicrous"}

\* config.set_performance_level(mode) on the config object the analyzer was
\* built with; the analyzer's semaphore is not touched
SetPerformanceLevel(mode) ==
    /\ entry = "none"
    /\ config' = set_performance_level(config, mode)
    /\ UNCHANGED <<scene_objs, scenes, categories, from_scene, to_scene,
                   semaphore, master_history, is_running, entry, pc, active_scenes,
                   i, current, processed_scenes, tasks, res_a, result, runs,
                   refiltered, fpc, client, items_left, returned_elements,
                   core_failed, core_ok, flag_failed, valid_flags, dropped_flags,
                   begun_stopped, issued>>

NextPerformance ==
    \/ \E mode \in ModeNames : SetPerformanceLevel(mode)
    \/ NextConcurrency

SpecPerformance == InitSession /\ [][NextPerformance]_vars

\* C29: during a run no more scene harvests are in flight than the
\* worker_threads the configuration holds for that run, and worker_threads is
\* always one of 1..4.
C29_BoundFollowsConfig ==
    /\ config.worker_threads \in 1..4
    /\ entry # "none" =>
          Cardinality({t \in DOMAIN tasks : tasks[t].pc \in harvest_awaits})
              <= config.worker_threads

-----------------------------------------------------------------------------
(* SpecRangeRun: run_full_pipeline called with a scene range whose bounds   *)
(* may be missing, blank, unmatched, or in the wrong order                  *)

RunBounds ==
    {None, Some(<<>>), Some(<<"1">>), Some(<<"2">>), Some(<<" ", "2">>),
     Some(<<"3">>), Some(<<"9">>)}

InitRangeRun ==
    /\ \E n \in 1..MaxScenes :
         /\ scene_objs = [k \in 1..n |-> parsed_scene(k, <<Digits[k]>>)]
         /\ InitRun(n, {DEFAULT_WORKER_THREADS})
    /\ from_scene \in RunBounds
    /\ to_scene \in RunBounds
    /\ refiltered = <<>>
    /\ fpc = "off"
    /\ client = ClientOff

SpecRangeRun == InitRangeRun /\ [][NextHeader]_vars

\* C30: the list run_full_pipeline works on is a contiguous stretch of its
\* input in input order, from the start of the input without a lower bound
\* and to its end without an upper bound; it is empty when the lower bound's
\* match lies after the upper bound's last match, and then the run issues
\* no request and returns the empty list.
C30_RangeIsContiguous ==
    entry = "pipeline" =>
        /\ \E a, b \in 0..Len(scenes) : active_scenes = SubSeq(scenes, a + 1, b)
        /\ from_scene = None =>
              active_scenes = SubSeq(scenes, 1, EndIndex(scenes, to_scene))
        /\ to_scene = None =>
              \E a \in 0..Len(scenes) : active_scenes = SubSeq(scenes, a + 1, Len(scenes))
        /\ /\ Matches(scenes, from_scene) # {}
           /\ Matches(scenes, to_scene) # {}
           /\ MaxOf(Matches(scenes, from_scene)) > MaxOf(Matches(scenes, to_scene))
           => active_scenes = <<>>
        /\ active_scenes = <<>> => issued = {} /\ result = Returned(<<>>)

\* the lower bound matched the second scene and the upper bound the first:
\* the run returned the empty list without a request
C30_Witness ==
    /\ entry = "pipeline"
    /\ Matches(scenes, from_scene) = {1}
    /\ Matches(scenes, to_scene) = {0}
    /\ result = Returned(<<>>)
    /\ issued = {}
====
